---- MODULE Spec2Model ----
(***************************************************************************)
(* Model of src/small/generator.py: five QEC benchmark circuit builders.   *)
(* A circuit is the sequence of instructions the builder methods append to *)
(* self._circuit.  The circuit is then executed instruction by instruction *)
(* on a Pauli frame (bit-flip component fx, phase-flip component fz) that  *)
(* is tracked for every qubit.  For ThreeQubitBitFlipCode the data         *)
(* register holds computational-basis states only, so fx of a data qubit   *)
(* is the bit value of that qubit.  For the other codes fx/fz is the error *)
(* frame relative to the error-free encoded state.                         *)
(***************************************************************************)
EXTENDS Integers, Sequences, FiniteSets

VARIABLES cls, logical, err, circuit, ip, fx, fz, synd, logic, corr

vars == <<cls, logical, err, circuit, ip, fx, fz, synd, logic, corr>>

\* Largest number of data qubits hit by the injected Pauli error.
MaxWeight == 1

Three == "ThreeQubitBitFlipCode"
Five == "FiveQubitCode"
Steane == "SteaneSevenQubitCode"
Shor == "ShorNineQubitCode"
Surface == "Surface3x3Code"

Classes == {Three, Five, Steane, Shor, Surface}

Skeletons == {Steane, Shor, Surface}

\* Register sizes, from each class's __init__.
NData(c) ==
  CASE c = Three -> 3 [] c = Five -> 5 [] c = Steane -> 7 [] c = Shor -> 9 [] c = Surface -> 9

NAnc(c) ==
  CASE c = Three -> 2 [] c = Five -> 4 [] c = Steane -> 6 [] c = Shor -> 8 [] c = Surface -> 4

NSynd(c) ==
  CASE c = Three -> 2 [] c = Five -> 4 [] c = Steane -> 6 [] c = Shor -> 8 [] c = Surface -> 4

NLogic == 2

\* Qubits and classical bits are <<register name, index>>.
D(i) == <<"data", i>>
A(i) == <<"ancilla", i>>
R == <<"readout", 0>>
S(i) == <<"synd", i>>
L(k) == <<"logic", k>>
None == <<"none", 0>>

DataQubits(c) == {D(i) : i \in 0..(NData(c) - 1)}
AncillaQubits(c) == {A(i) : i \in 0..(NAnc(c) - 1)}
Qubits(c) == DataQubits(c) \cup AncillaQubits(c) \cup {R}

\* One circuit instruction: gate g on qubit a (and qubit or classical bit b),
\* executed only when c = -1 or the synd register equals c (if_test).
Op(g, a, b, c) == [g |-> g, a |-> a, b |-> b, c |-> c]

Barrier == Op("barrier", None, None, -1)
Reset(q) == Op("reset", q, None, -1)
H(q) == Op("h", q, None, -1)
CX(ctl, tgt) == Op("cx", ctl, tgt, -1)
CZ(ctl, tgt) == Op("cz", ctl, tgt, -1)
Measure(q, cb) == Op("measure", q, cb, -1)
IfTest(v, g, q) == Op(g, q, None, v)

\* for a in self._ancillaqubits: reset(a)
ResetAll(n) == [i \in 1..n |-> Reset(A(i - 1))]

\* for q in self._dataqubits: cx(q, readout)
CXAll(n) == [i \in 1..n |-> CX(D(i - 1), R)]

(***************************************************************************)
(* ThreeQubitBitFlipCode                                                   *)
(***************************************************************************)
\* Variant: the entries for syndrome values 1 and 2 exchanged.
Three_corrections_exchanged ==
  << IfTest(1, "x", D(0)),
     IfTest(2, "x", D(2)),
     IfTest(3, "x", D(1)) >>

Three_corrections ==
  << IfTest(1, "x", D(2)),
     IfTest(2, "x", D(0)),
     IfTest(3, "x", D(1)) >>

Three_syndrome_measurement(circ) ==
  circ \o
  << Barrier,
     Reset(A(0)), Reset(A(1)),
     CX(D(0), A(0)), CX(D(1), A(0)), Measure(A(0), S(0)),
     CX(D(1), A(1)), CX(D(2), A(1)), Measure(A(1), S(1)) >>
  \o Three_corrections

\* Variant: the readout qubit is not reset before the parity is collected.
Three_logical_readout_noreset(circ, k) ==
  circ \o
  << CX(D(0), R), CX(D(1), R), CX(D(2), R), Measure(R, L(k)) >>

Three_logical_readout(circ, k) ==
  circ \o
  << Reset(R), CX(D(0), R), CX(D(1), R), CX(D(2), R), Measure(R, L(k)) >>

Three_construct_circuit(circ) ==
  Three_logical_readout(
    Three_syndrome_measurement(
      Three_logical_readout(
        Three_syndrome_measurement(circ), 0)), 1)

(***************************************************************************)
(* FiveQubitCode                                                           *)
(***************************************************************************)
\* Variant: the conditions of X_0 and X_1 exchanged.
Five_corrections_exchanged ==
  << IfTest(1, "x", D(0)),
     IfTest(8, "x", D(1)),
     IfTest(3, "x", D(2)),
     IfTest(6, "x", D(3)),
     IfTest(12, "x", D(4)),
     IfTest(5, "z", D(0)),
     IfTest(10, "z", D(1)),
     IfTest(4, "z", D(2)),
     IfTest(9, "z", D(3)),
     IfTest(2, "z", D(4)),
     IfTest(13, "y", D(0)),
     IfTest(11, "y", D(1)),
     IfTest(7, "y", D(2)),
     IfTest(15, "y", D(3)),
     IfTest(14, "y", D(4)) >>

\* Variant: the Y_3 condition repeats the Y_2 value.
Five_corrections_repeated ==
  << IfTest(8, "x", D(0)),
     IfTest(1, "x", D(1)),
     IfTest(3, "x", D(2)),
     IfTest(6, "x", D(3)),
     IfTest(12, "x", D(4)),
     IfTest(5, "z", D(0)),
     IfTest(10, "z", D(1)),
     IfTest(4, "z", D(2)),
     IfTest(9, "z", D(3)),
     IfTest(2, "z", D(4)),
     IfTest(13, "y", D(0)),
     IfTest(11, "y", D(1)),
     IfTest(7, "y", D(2)),
     IfTest(7, "y", D(3)),
     IfTest(14, "y", D(4)) >>

Five_corrections ==
  << IfTest(8, "x", D(0)),
     IfTest(1, "x", D(1)),
     IfTest(3, "x", D(2)),
     IfTest(6, "x", D(3)),
     IfTest(12, "x", D(4)),
     IfTest(5, "z", D(0)),
     IfTest(10, "z", D(1)),
     IfTest(4, "z", D(2)),
     IfTest(9, "z", D(3)),
     IfTest(2, "z", D(4)),
     IfTest(13, "y", D(0)),
     IfTest(11, "y", D(1)),
     IfTest(7, "y", D(2)),
     IfTest(15, "y", D(3)),
     IfTest(14, "y", D(4)) >>

\* Variant: the reset of ancilla[3] is missing.
Five_resets_incomplete ==
  << Reset(A(0)), Reset(A(1)), Reset(A(2)) >>

Five_resets ==
  << Reset(A(0)), Reset(A(1)), Reset(A(2)), Reset(A(3)) >>

Five_couplings ==
  << CX(A(0), D(0)), CZ(A(0), D(1)), CZ(A(0), D(2)), CX(A(0), D(3)),
     CX(A(1), D(1)), CZ(A(1), D(2)), CZ(A(1), D(3)), CX(A(1), D(4)),
     CX(A(2), D(0)), CX(A(2), D(2)), CZ(A(2), D(3)), CZ(A(2), D(4)),
     CZ(A(3), D(0)), CX(A(3), D(1)), CX(A(3), D(3)), CZ(A(3), D(4)) >>

Five_syndrome_measurement(circ) ==
  circ
  \o Five_resets
  \o << H(A(0)), H(A(1)), H(A(2)), H(A(3)) >>
  \o Five_couplings
  \o << H(A(0)), H(A(1)), H(A(2)), H(A(3)) >>
  \o << Measure(A(0), S(0)), Measure(A(1), S(1)),
        Measure(A(2), S(2)), Measure(A(3), S(3)) >>
  \o Five_corrections

Five_logical_readout(circ, k) ==
  circ \o << Reset(R) >> \o CXAll(5) \o << Measure(R, L(k)) >>

Five_construct_circuit(circ) ==
  Five_logical_readout(
    Five_syndrome_measurement(
      Five_logical_readout(
        Five_syndrome_measurement(circ), 0)), 1)

(***************************************************************************)
(* SteaneSevenQubitCode                                                    *)
(***************************************************************************)
Steane_encode_logical_zero(circ) == circ

Steane_syndrome_measurement(circ) ==
  circ \o << Barrier >> \o ResetAll(6)
  \o << CX(D(0), A(0)), CX(D(1), A(0)), Measure(A(0), S(0)) >>

Steane_logical_readout(circ, k) ==
  circ \o << Reset(R) >> \o CXAll(7) \o << Measure(R, L(k)) >>

\* Variant: both syndrome rounds are appended before the two readouts.
Steane_construct_circuit_reordered(circ) ==
  Steane_logical_readout(
    Steane_logical_readout(
      Steane_syndrome_measurement(
        Steane_syndrome_measurement(
          Steane_encode_logical_zero(circ))), 0), 1)

Steane_construct_circuit(circ) ==
  Steane_logical_readout(
    Steane_syndrome_measurement(
      Steane_logical_readout(
        Steane_syndrome_measurement(
          Steane_encode_logical_zero(circ)), 0)), 1)

(***************************************************************************)
(* ShorNineQubitCode                                                       *)
(***************************************************************************)
Shor_encode_logical_zero(circ) == circ

\* Variant: a second stabilizer is measured into synd[1].
Shor_syndrome_measurement_two(circ) ==
  circ \o << Barrier >> \o ResetAll(8)
  \o << CX(D(0), A(0)), CX(D(1), A(0)), Measure(A(0), S(0)),
        CX(D(1), A(1)), CX(D(2), A(1)), Measure(A(1), S(1)) >>

Shor_syndrome_measurement(circ) ==
  circ \o << Barrier >> \o ResetAll(8)
  \o << CX(D(0), A(0)), CX(D(1), A(0)), Measure(A(0), S(0)) >>

Shor_logical_readout(circ, k) ==
  circ \o << Reset(R) >> \o CXAll(9) \o << Measure(R, L(k)) >>

Shor_construct_circuit(circ) ==
  Shor_logical_readout(
    Shor_syndrome_measurement(
      Shor_logical_readout(
        Shor_syndrome_measurement(
          Shor_encode_logical_zero(circ)), 0)), 1)

(***************************************************************************)
(* Surface3x3Code                                                          *)
(***************************************************************************)
Surface_encode_logical_zero(circ) == circ

Surface_syndrome_measurement(circ) ==
  circ \o << Barrier >> \o ResetAll(4)
  \o << CX(D(0), A(0)), CX(D(1), A(0)), CX(D(3), A(0)), CX(D(4), A(0)),
        Measure(A(0), S(0)) >>
  \o << H(A(1)),
        CZ(A(1), D(4)), CZ(A(1), D(5)), CZ(A(1), D(7)), CZ(A(1), D(8)),
        H(A(1)),
        Measure(A(1), S(1)) >>

Surface_logical_readout(circ, k) ==
  circ \o << Reset(R) >> \o CXAll(9) \o << Measure(R, L(k)) >>

Surface_construct_circuit(circ) ==
  Surface_logical_readout(
    Surface_syndrome_measurement(
      Surface_logical_readout(
        Surface_syndrome_measurement(
          Surface_encode_logical_zero(circ)), 0)), 1)

\* Dispatch on the class of the object.
construct_circuit(c, circ) ==
  CASE c = Three -> Three_construct_circuit(circ)
    [] c = Five -> Five_construct_circuit(circ)
    [] c = Steane -> Steane_construct_circuit(circ)
    [] c = Shor -> Shor_construct_circuit(circ)
    [] c = Surface -> Surface_construct_circuit(circ)

(***************************************************************************)
(* Execution of one instruction on the Pauli frame.                        *)
(***************************************************************************)
Xor(a, b) == (a + b) % 2

\* Integer value of the synd register; synd[0] is the least-significant bit.
RECURSIVE RegValue(_, _)
RegValue(reg, n) ==
  IF n = 0 THEN 0 ELSE reg[n - 1] * (2 ^ (n - 1)) + RegValue(reg, n - 1)

SyndValue == RegValue(synd, NSynd(cls))

Fires(o) == o.c = -1 \/ o.c = SyndValue

NewFx(o) ==
  CASE o.g = "reset" -> [fx EXCEPT ![o.a] = 0]
    [] o.g = "h" -> [fx EXCEPT ![o.a] = fz[o.a]]
    [] o.g = "cx" -> [fx EXCEPT ![o.b] = Xor(fx[o.b], fx[o.a])]
    [] o.g \in {"x", "y"} -> [fx EXCEPT ![o.a] = Xor(fx[o.a], 1)]
    [] OTHER -> fx

NewFz(o) ==
  CASE o.g = "reset" -> [fz EXCEPT ![o.a] = 0]
    [] o.g = "h" -> [fz EXCEPT ![o.a] = fx[o.a]]
    [] o.g = "cx" -> [fz EXCEPT ![o.a] = Xor(fz[o.a], fz[o.b])]
    [] o.g = "cz" -> [fz EXCEPT ![o.a] = Xor(fz[o.a], fx[o.b]),
                                ![o.b] = Xor(fz[o.b], fx[o.a])]
    [] o.g \in {"z", "y"} -> [fz EXCEPT ![o.a] = Xor(fz[o.a], 1)]
    [] OTHER -> fz

WritesReg(o, name) == o.g = "measure" /\ o.b[1] = name

(***************************************************************************)
(* Injected errors: Pauli operators of weight at most MaxWeight on data.   *)
(***************************************************************************)
Paulis == {"I", "X", "Y", "Z"}

XBit(p) == IF p \in {"X", "Y"} THEN 1 ELSE 0
ZBit(p) == IF p \in {"Z", "Y"} THEN 1 ELSE 0

Weight(e) == Cardinality({i \in DOMAIN e : e[i] # "I"})

RECURSIVE ErrorsUpTo(_, _)
ErrorsUpTo(n, w) ==
  IF w = 0 THEN {[i \in 0..(n - 1) |-> "I"]}
  ELSE LET prev == ErrorsUpTo(n, w - 1)
       IN prev \cup {[e EXCEPT ![q] = p] :
                       e \in prev, q \in 0..(n - 1), p \in {"X", "Y", "Z"}}

Logicals(c) == IF c = Three THEN {0, 1} ELSE {0}

Init ==
  /\ cls \in Classes
  /\ logical \in Logicals(cls)
  /\ err \in ErrorsUpTo(NData(cls), MaxWeight)
  /\ circuit = << >>
  /\ ip = 0
  /\ fx = [q \in Qubits(cls) |->
             IF q[1] = "data" THEN Xor(logical, XBit(err[q[2]])) ELSE 0]
  /\ fz = [q \in Qubits(cls) |->
             IF q[1] = "data" THEN ZBit(err[q[2]]) ELSE 0]
  /\ synd = [i \in 0..(NSynd(cls) - 1) |-> 0]
  /\ logic = [k \in 0..(NLogic - 1) |-> 0]
  /\ corr = << >>

\* main: obj.construct_circuit() on a freshly constructed object.
ConstructCircuit ==
  /\ circuit = << >>
  /\ circuit' = construct_circuit(cls, circuit)
  /\ UNCHANGED <<cls, logical, err, ip, fx, fz, synd, logic, corr>>

\* The simulator executes the next instruction of the circuit.
ExecStep ==
  /\ ip < Len(circuit)
  /\ LET o == circuit[ip + 1]
     IN /\ fx' = IF Fires(o) THEN NewFx(o) ELSE fx
        /\ fz' = IF Fires(o) THEN NewFz(o) ELSE fz
        /\ synd' = IF WritesReg(o, "synd")
                   THEN [synd EXCEPT ![o.b[2]] = fx[o.a]] ELSE synd
        /\ logic' = IF WritesReg(o, "logic")
                    THEN [logic EXCEPT ![o.b[2]] = fx[o.a]] ELSE logic
        /\ corr' = IF o.c >= 0 /\ Fires(o)
                   THEN Append(corr, [at |-> ip + 1, g |-> o.g, a |-> o.a])
                   ELSE corr
  /\ ip' = ip + 1
  /\ UNCHANGED <<cls, logical, err, circuit>>

Next == ConstructCircuit \/ ExecStep

Spec == Init /\ [][Next]_vars

(***************************************************************************)
(* A second entry point: logical_readout(k) called directly on a freshly   *)
(* constructed object, the data register holding any of the prepared       *)
(* states, and the resulting circuit executed.                             *)
(***************************************************************************)
logical_readout(c, circ, k) ==
  CASE c = Three -> Three_logical_readout(circ, k)
    [] c = Five -> Five_logical_readout(circ, k)
    [] c = Steane -> Steane_logical_readout(circ, k)
    [] c = Shor -> Shor_logical_readout(circ, k)
    [] c = Surface -> Surface_logical_readout(circ, k)

LogicalReadoutCall ==
  /\ circuit = << >>
  /\ \E k \in 0..(NLogic - 1) : circuit' = logical_readout(cls, circuit, k)
  /\ UNCHANGED <<cls, logical, err, ip, fx, fz, synd, logic, corr>>

NextReadout == LogicalReadoutCall \/ ExecStep

SpecReadout == Init /\ [][NextReadout]_vars

(***************************************************************************)
(* Positions in the executing circuit.                                     *)
(***************************************************************************)
Built == circuit # << >>

Done == Built /\ ip = Len(circuit)

\* Indices of the instructions that measure into logic[k].
LogicWrites(k) == {i \in 1..Len(circuit) : circuit[i].g = "measure" /\ circuit[i].b = L(k)}

AllLogicWrites == {i \in 1..Len(circuit) : WritesReg(circuit[i], "logic")}

SyndWrites == {i \in 1..Len(circuit) : WritesReg(circuit[i], "synd")}

Conditionals == {i \in 1..Len(circuit) : circuit[i].c >= 0}

AncillaResets ==
  {i \in 1..Len(circuit) : circuit[i].g = "reset" /\ circuit[i].a[1] = "ancilla"}

\* The round (1, 2, ...) the instruction at index pos belongs to: rounds are
\* separated by the logical readouts.
RoundOf(pos) == 1 + Cardinality({i \in AllLogicWrites : i < pos})

\* Syndrome round k has run to its end: the next instruction opens readout k-1.
EndOfRound(k) ==
  /\ ip < Len(circuit)
  /\ circuit[ip + 1] = Reset(R)
  /\ RoundOf(ip + 1) = k

\* The corrections applied in round k, in order, as <<gate, qubit>>.
CorrOfRound(k) ==
  LET InRound(e) == RoundOf(e.at) = k
      sel == SelectSeq(corr, InRound)
  IN [j \in 1..Len(sel) |-> <<sel[j].g, sel[j].a>>]

DataX == [i \in 0..(NData(cls) - 1) |-> fx[D(i)]]
DataZ == [i \in 0..(NData(cls) - 1) |-> fz[D(i)]]

NoDataError == \A i \in 0..(NData(cls) - 1) : fx[D(i)] = 0 /\ fz[D(i)] = 0

SingleError(p, q) == Weight(err) = 1 /\ err[q] = p

GateOf(p) == CASE p = "X" -> "x" [] p = "Y" -> "y" [] p = "Z" -> "z"

(***************************************************************************)
(* Properties                                                              *)
(***************************************************************************)

\* The syndrome value the 3-qubit table documents for an X error on data[i].
ThreeDocumentedSyndrome(i) == CASE i = 2 -> 1 [] i = 0 -> 2 [] i = 1 -> 3

\* C1: ThreeQubitBitFlipCode: with the data register a codeword (000 or 111)
\* carrying one X error on data[i], one syndrome round measures value 1 for
\* data[2], 2 for data[0], 3 for data[1] (0 with no error), applies X to that
\* same qubit i and leaves the data register at the original codeword.
C1_SingleErrorCorrected ==
  (cls = Three /\ EndOfRound(1)) =>
    /\ Weight(err) = 0 =>
         /\ SyndValue = 0
         /\ CorrOfRound(1) = << >>
         /\ \A j \in 0..2 : fx[D(j)] = logical
    /\ \A i \in 0..2 :
         SingleError("X", i) =>
           /\ SyndValue = ThreeDocumentedSyndrome(i)
           /\ CorrOfRound(1) = << <<"x", D(i)>> >>
           /\ \A j \in 0..2 : fx[D(j)] = logical

\* The five-qubit stabilizers: row j is measured through ancilla[j].
FiveStabilizers ==
  << <<"X", "Z", "Z", "X", "I">>,
     <<"I", "X", "Z", "Z", "X">>,
     <<"X", "I", "X", "Z", "Z">>,
     <<"Z", "X", "I", "X", "Z">> >>

Anticommute(p, s) == p # "I" /\ s # "I" /\ p # s

\* Bit j is 1 iff Pauli p on data[q] anticommutes with stabilizer j.
FiveSyndromeOf(p, q) ==
  LET bit(j) == IF Anticommute(p, FiveStabilizers[j + 1][q + 1]) THEN 1 ELSE 0
  IN bit(0) + 2 * bit(1) + 4 * bit(2) + 8 * bit(3)

\* C2: FiveQubitCode: for each single-qubit Pauli error P on data[q], round 1
\* measures the syndrome given by the four stabilizers (bit j set iff P
\* anticommutes with stabilizer j), the conditional section applies exactly P
\* on exactly data[q], and no error is left on the data register.
C2_FiveTableMatchesChecks ==
  (cls = Five /\ EndOfRound(1)) =>
    \A q \in 0..4 : \A p \in {"X", "Y", "Z"} :
      SingleError(p, q) =>
        /\ SyndValue = FiveSyndromeOf(p, q)
        /\ CorrOfRound(1) = << <<GateOf(p), D(q)>> >>
        /\ NoDataError

C2_Witness ==
  /\ cls = Five /\ EndOfRound(1)
  /\ SingleError("Y", 3)
  /\ SyndValue = 15
  /\ CorrOfRound(1) = << <<"y", D(3)>> >>
  /\ NoDataError

\* The set of <<value, gate, qubit>> of the conditional instructions.
CondTable == {<<circuit[i].c, circuit[i].g, circuit[i].a>> : i \in Conditionals}

\* Gates outside the conditional section never act as corrections.
NoUnconditionalPauli ==
  \A i \in 1..Len(circuit) :
    circuit[i].c = -1 => circuit[i].g \notin {"x", "y", "z"}

ThreeSpecifiedTable(v) ==
  CASE v = 0 -> << >>
    [] v = 1 -> << <<"x", D(2)>> >>
    [] v = 2 -> << <<"x", D(0)>> >>
    [] v = 3 -> << <<"x", D(1)>> >>

\* C3: ThreeQubitBitFlipCode: for every value v of synd after the two
\* measurements the conditional section applies exactly: v = 0 nothing,
\* v = 1 X on data[2], v = 2 X on data[0], v = 3 X on data[1]; never more
\* than one correction gate in a round.
C3_ThreeDecoderTable ==
  (cls = Three /\ Built) =>
    /\ CondTable = {<<1, "x", D(2)>>, <<2, "x", D(0)>>, <<3, "x", D(1)>>}
    /\ NoUnconditionalPauli
    /\ \A k \in 1..2 :
         EndOfRound(k) =>
           /\ CorrOfRound(k) = ThreeSpecifiedTable(SyndValue)
           /\ Len(CorrOfRound(k)) <= 1

C3_Witness ==
  /\ cls = Three /\ EndOfRound(1)
  /\ SyndValue = 1
  /\ CorrOfRound(1) = << <<"x", D(2)>> >>

\* C4: FiveQubitCode: the decoder table is a bijection between the 15
\* non-zero syndrome values and the 15 (Pauli, qubit) corrections; syndrome 0
\* applies nothing and every non-zero syndrome applies exactly one gate.
C4_FiveTableBijection ==
  (cls = Five /\ Built) =>
    /\ {t[1] : t \in CondTable} = 1..15
    /\ {<<t[2], t[3]>> : t \in CondTable} = {"x", "y", "z"} \X DataQubits(Five)
    /\ \A t1, t2 \in CondTable :
         (t1[1] = t2[1]) <=> (t1[2] = t2[2] /\ t1[3] = t2[3])
    /\ NoUnconditionalPauli
    /\ \A k \in 1..2 :
         EndOfRound(k) =>
           /\ SyndValue = 0 => CorrOfRound(k) = << >>
           /\ SyndValue # 0 =>
                /\ Len(CorrOfRound(k)) = 1
                /\ <<SyndValue, CorrOfRound(k)[1][1], CorrOfRound(k)[1][2]>>
                     \in CondTable

C4_Witness ==
  /\ cls = Five /\ EndOfRound(1)
  /\ SyndValue = 14
  /\ CorrOfRound(1) = << <<"y", D(4)>> >>

Majority(b0, b1, b2) == IF b0 + b1 + b2 >= 2 THEN 1 ELSE 0

\* C5: ThreeQubitBitFlipCode.logical_readout(k): for every assignment
\* (b0, b1, b2) of the data qubits the bit written into logic[k] is the
\* majority value of b0, b1, b2.
C5_ReadoutIsMajority ==
  (cls = Three /\ ip > 0 /\ WritesReg(circuit[ip], "logic")) =>
    logic[circuit[ip].b[2]] = Majority(fx[D(0)], fx[D(1)], fx[D(2)])

\* Length of one logical_readout block: reset, one cx per data qubit, measure.
ReadoutLen == NData(cls) + 2

\* C6: construct_circuit, all five classes: the circuit is syndrome round 1,
\* readout into logic[0], the same syndrome round again, readout into
\* logic[1]; logic[0] is written exactly once, after every conditional
\* correction of round 1 and before the ancilla resets of round 2; logic[1] is
\* written exactly once, after every conditional correction of round 2; no
\* syndrome bit is written after the last write of logic[1].
C6_ConstructOrdering ==
  Built =>
    /\ Cardinality(LogicWrites(0)) = 1
    /\ Cardinality(LogicWrites(1)) = 1
    /\ LET i0 == CHOOSE i \in LogicWrites(0) : TRUE
           i1 == CHOOSE i \in LogicWrites(1) : TRUE
           r == i0 - ReadoutLen
       IN /\ i0 < i1
          /\ i1 = Len(circuit)
          /\ r >= 1
          /\ i1 = 2 * i0
          /\ SubSeq(circuit, 1, r) = SubSeq(circuit, i0 + 1, i0 + r)
          /\ \A i \in (r + 1)..i0 : R \in {circuit[i].a, circuit[i].b}
          /\ \A i \in (i0 + r + 1)..i1 : R \in {circuit[i].a, circuit[i].b}
          /\ \A i \in 1..r : R \notin {circuit[i].a, circuit[i].b}
          /\ \E i \in SyndWrites : i < i0
          /\ \E i \in SyndWrites : i0 < i /\ i < i1
          /\ \A i \in SyndWrites \cup Conditionals \cup AncillaResets : i < i1
          /\ Cardinality({i \in AncillaResets : i < i0}) = NAnc(cls)
          /\ Cardinality({i \in AncillaResets : i > i0}) = NAnc(cls)
          /\ \A a \in AncillaResets : \A i \in SyndWrites \cup Conditionals :
               (a > i0 /\ i > i0) => a < i
          /\ Cardinality({i \in Conditionals : i < i0})
               = Cardinality({i \in Conditionals : i > i0})

C6_Witness ==
  /\ cls = Steane /\ Done
  /\ LogicWrites(0) = {19} /\ LogicWrites(1) = {38}

\* C7 as stated: in the three skeleton classes synd[0] is the only syndrome
\* bit ever written, every other syndrome bit stays 0, and no correction gate
\* is ever applied to a data qubit.
C7_SingleDummyStabilizer ==
  cls \in Skeletons =>
    /\ \A i \in 1..(NSynd(cls) - 1) : synd[i] = 0
    /\ \A i \in SyndWrites : i <= ip => circuit[i].b = S(0)
    /\ corr = << >>

WrittenSyndBits(c) == IF c = Surface THEN {0, 1} ELSE {0}

\* C7 amended: SteaneSevenQubitCode and ShorNineQubitCode write synd[0] only,
\* Surface3x3Code writes synd[0] and synd[1] (its two example checks); every
\* other syndrome bit stays 0, and no correction gate is ever applied to a
\* data qubit in any of the three.
C7_SkeletonsArePlaceholders ==
  cls \in Skeletons =>
    /\ \A i \in (0..(NSynd(cls) - 1)) \ WrittenSyndBits(cls) : synd[i] = 0
    /\ Built => {circuit[i].b[2] : i \in SyndWrites} = WrittenSyndBits(cls)
    /\ corr = << >>
    /\ Conditionals = {}
    /\ NoUnconditionalPauli
    /\ \A q \in 0..(NData(cls) - 1) :
         fx[D(q)] = XBit(err[q]) /\ fz[D(q)] = ZBit(err[q])

C7_Witness ==
  /\ cls = Surface /\ Done
  /\ SingleError("X", 5)
  /\ synd[1] = 1
  /\ fx[D(5)] = 1

\* C8: ThreeQubitBitFlipCode, two-round run from codeword 000 with at most one
\* X error before round 1: the run ends with logic[0] = 0, logic[1] = 0 and the
\* data register back at 000.
C8_TwoRoundMemory ==
  (/\ cls = Three /\ logical = 0 /\ Done
   /\ \A i \in 0..2 : err[i] \in {"I", "X"}
   /\ Weight(err) <= 1) =>
    /\ logic[0] = 0
    /\ logic[1] = 0
    /\ \A j \in 0..2 : fx[D(j)] = 0

\* Syndrome of the error now on the data register, per the stabilizers.
FiveSyndromeOfFrame ==
  LET p(q) == CASE fx[D(q)] = 1 /\ fz[D(q)] = 1 -> "Y"
                [] fx[D(q)] = 1 /\ fz[D(q)] = 0 -> "X"
                [] fx[D(q)] = 0 /\ fz[D(q)] = 1 -> "Z"
                [] OTHER -> "I"
      odd(j) == Cardinality({q \in 0..4 :
                  Anticommute(p(q), FiveStabilizers[j + 1][q + 1])}) % 2
  IN odd(0) + 2 * odd(1) + 4 * odd(2) + 8 * odd(3)

\* The four ancilla measurements of a round have just been taken.
SyndromeTaken ==
  /\ ip > 0 /\ ip < Len(circuit)
  /\ circuit[ip] = Measure(A(NAnc(cls) - 1), S(NSynd(cls) - 1))

\* C9: FiveQubitCode: the syndrome measured in a round depends only on the
\* Pauli error on the data register in that round (the ancillas are reset);
\* with at most one single-qubit error before round 1, round 2 measures 0,
\* applies no correction, and the data register is error-free after round 1
\* and after round 2.
C9_SecondRoundNoOp ==
  cls = Five =>
    /\ SyndromeTaken => SyndValue = FiveSyndromeOfFrame
    /\ Weight(err) <= 1 =>
         /\ EndOfRound(1) => NoDataError
         /\ (SyndromeTaken /\ RoundOf(ip) = 2) => SyndValue = 0 /\ NoDataError
         /\ EndOfRound(2) =>
              /\ SyndValue = 0
              /\ CorrOfRound(2) = << >>
              /\ NoDataError

C9_Witness ==
  /\ cls = Five /\ EndOfRound(2)
  /\ SingleError("Z", 1)
  /\ CorrOfRound(1) = << <<"z", D(1)>> >>
  /\ CorrOfRound(2) = << >>
  /\ SyndValue = 0

OnReadout(o) == R \in {o.a, o.b}

DataParity ==
  Cardinality({q \in 0..(NData(cls) - 1) : fx[D(q)] = 1}) % 2

C10_Step ==
  (cls \in {Three, Five} /\ ip' = ip + 1) =>
    LET o == circuit[ip + 1]
    IN /\ OnReadout(o) =>
            /\ \A q \in DataQubits(cls) : fx'[q] = fx[q] /\ fz'[q] = fz[q]
            /\ synd' = synd
            /\ corr' = corr
            /\ \A k \in 0..(NLogic - 1) : logic'[k] # logic[k] => o.b = L(k)
            /\ WritesReg(o, "logic") => logic'[o.b[2]] = DataParity
       /\ ~OnReadout(o) =>
            /\ logic' = logic
            /\ corr' # corr =>
                 \A j \in 1..Len(corr) : RoundOf(corr[j].at) # RoundOf(ip + 1)

\* C10: frame of the two operations in ThreeQubitBitFlipCode and
\* FiveQubitCode: an instruction of logical_readout(k) changes no data qubit,
\* no synd bit and no logic bit other than logic[k], and the value written is
\* the parity of the data bit-flips at that moment (the readout qubit is
\* reset first, so earlier readouts do not matter); an instruction of
\* syndrome_measurement changes no logic bit, and a round applies at most one
\* data correction.
C10_Frame == [][C10_Step]_vars

C10_Witness ==
  /\ cls = Three /\ Done
  /\ logical = 1
  /\ logic[0] = 1 /\ logic[1] = 1
  /\ Len(corr) = 1

\* Parity of the bit-flip (X or Y) errors now on the data qubits qs.
XParity(qs) == Cardinality({q \in qs : fx[D(q)] = 1}) % 2

\* Parity of the phase-flip (Z or Y) errors now on the data qubits qs.
ZParity(qs) == Cardinality({q \in qs : fz[D(q)] = 1}) % 2

\* Both checks of a Surface3x3Code round have just been measured.
SurfaceChecksTaken ==
  /\ cls = Surface
  /\ ip > 0
  /\ circuit[ip] = Measure(A(1), S(1))

\* C11: Surface3x3Code: the first check is Z-type on data[0,1,3,4] (synd[0]
\* is 1 iff an odd number of X errors sit there) and the second check, built
\* as H, four CZ, H, is X-type on data[4,5,7,8] (synd[1] is 1 iff an odd
\* number of Z errors sit there, whatever the X errors on those qubits).
C11_SurfaceCheckTypes ==
  SurfaceChecksTaken =>
    /\ synd[0] = XParity({0, 1, 3, 4})
    /\ synd[1] = ZParity({4, 5, 7, 8})

====
